---- MODULE Spec2Model ----
(***************************************************************************)
(* PendulumControllerNode: a lifecycle node whose sensor subscription is   *)
(* served by a dedicated real-time thread (realtime_loop) while teleop     *)
(* messages and lifecycle transitions are served by a single-threaded      *)
(* executor.  The two threads share controller_, the lifecycle state, the  *)
(* lifecycle publisher's enabled flag and num_missed_deadlines_.           *)
(*                                                                         *)
(* Real coefficients are scaled by 10^4 so that all arithmetic is integer. *)
(*                                                                         *)
(* main (pendulum_controller_node_main.cpp) starts the two threads, sleeps,*)
(* shuts down and joins them; MotorSim (motor_sim.hpp) is the simulated    *)
(* plant.  Spec is the node while main sleeps, MainSpec the whole program  *)
(* from the start of main, FailSpec the program with calls that throw, and *)
(* MotorSpec a MotorSim on its own.                                        *)
(***************************************************************************)
EXTENDS Integers, Sequences, FiniteSets, TLC

\* ------------------------------------------------------------------ bounds
\* samples the transport delivers before the loop takes one
MaxBacklog == 3
\* deadline misses counted in one behaviour
MaxMissed == 2

\* calls of MotorSim::update_motor_state in one behaviour
MaxUpdates == 3

\* --------------------------------------------------------------- constants
\* history depth of the state subscription, rclcpp::QoS(1)
StateQoSDepth == 1

\* controller.feedback_matrix default, times 10^4
FeedbackMatrix == <<-100000, -515393, 3568637, 1544146>>

\* sensor samples <<cart_position, cart_velocity, pole_angle, pole_velocity>>
Samples == {<<0, 0, 1, 0>>, <<1, 0, 0, 1>>}
\* teleop messages <<cart_position, cart_velocity>>
TeleopMsgs == {<<1, 2>>, <<2, 1>>}

NoMsg == <<>>

\* ------------------------------------------------------------- MotorSim
\* A double is NaN or a real number; reals are kept in thousandths (radians,
\* radians per second, seconds) and products are rounded down to thousandths.
NaN == [nan |-> TRUE, v |-> 0]
D(x) == [nan |-> FALSE, v |-> x]

Milli == 1000
NanosPerMilli == 1000000

GRAVITY == 9807
PI == 3142
\* PendulumProperties
mass == 10
length == 500
\* PendulumState::torque is never written
torque == 0

Add(a, b) == IF a.nan \/ b.nan THEN NaN ELSE D(a.v + b.v)
Sub(a, b) == IF a.nan \/ b.nan THEN NaN ELSE D(a.v - b.v)
Mul(a, b) == IF a.nan \/ b.nan THEN NaN ELSE D((a.v * b.v) \div Milli)
Div(a, b) == IF a.nan \/ b.nan THEN NaN ELSE D((a.v * Milli) \div b.v)
\* a comparison with NaN is false
Gt(a, b) == ~ a.nan /\ ~ b.nan /\ a.v > b.v
Lt(a, b) == ~ a.nan /\ ~ b.nan /\ a.v < b.v

\* std::sin on [-PI/2, PI/2] by its Taylor polynomial of degree 5
SinPos(x) ==
  LET x2 == (x * x) \div Milli
      x3 == (x2 * x) \div Milli
      x5 == (x3 * x2) \div Milli
      p  == x - (x3 \div 6) + (x5 \div 120)
  IN  IF p > Milli THEN Milli ELSE p
Sin(a) == IF a.nan THEN NaN
          ELSE IF a.v < 0 THEN D(0 - SinPos(0 - a.v)) ELSE D(SinPos(a.v))

\* publish periods in nanoseconds: none, 1 ms, half a second, a second, and a
\* negative second
Periods == {0, 1000000, 500000000, 1000000000, -1000000000}

\* commanded positions
Commands == {NaN, D(-1000), D(0), D(1000), D(1571), D(3142), D(5000)}

\* a constructor that divides the count as an integer
DtOfIntegerDivision(period) == (period \div (Milli * NanosPerMilli)) * Milli

\* dt_ = publish_period_.count() / 10^9 seconds, in milliseconds
DtOf(period) == period \div NanosPerMilli

\* std::isnan(dt_) || dt_ == 0; the quotient of an integer count is never NaN
InvalidDt(d) == d = 0

\* velocity += acceleration * dt_; position += velocity * dt_
Euler(pos, vel, acc, d) ==
  LET v == Add(vel, Mul(acc, D(d)))
  IN  [velocity |-> v, position |-> Add(pos, Mul(v, D(d)))]

\* GRAVITY * sin(position - PI / 2) / length + torque / (mass * length^2)
Acceleration(pos) ==
  Add(Div(Mul(D(GRAVITY), Sin(Sub(pos, D(PI \div 2)))), D(length)),
      Div(D(torque), Mul(D(mass), Mul(D(length), D(length)))))

\* if (position > PI) position = PI; else if (position < 0) position = 0
Clamp(x) == IF Gt(x, D(PI)) THEN D(PI)
            ELSE IF Lt(x, D(0)) THEN D(0) ELSE x

\* ---------------------------------------------------------- lifecycle ids
Unconfigured == "Unconfigured"
Inactive == "Inactive"
Active == "Active"
Finalized == "Finalized"
Configuring == "Configuring"
CleaningUp == "CleaningUp"
ShuttingDown == "ShuttingDown"
Activating == "Activating"
Deactivating == "Deactivating"

PrimaryStates == {Unconfigured, Inactive, Active, Finalized}
TransitionStates == {Configuring, CleaningUp, ShuttingDown, Activating, Deactivating}
Transitions == {"configure", "cleanup", "activate", "deactivate", "shutdown"}

VARIABLES
  lifecycle,             \* get_current_state().id()
  enabled,               \* command_pub_ is activated (LifecyclePublisher)
  response,              \* the last change_state answer
  state,                 \* controller_: plant state
  teleop,                \* controller_: teleoperation setpoint
  force_command,         \* controller_: last computed command
  update_teleop,         \* setpoint pair read by update() in this iteration
  num_missed_deadlines,  \* num_missed_deadlines_
  queue,                 \* samples held by state_sub_, oldest first
  backlog,               \* samples delivered since state_sub_ was last empty
  last_sent,             \* the sample the transport delivered last
  published,             \* what this iteration handed to command_pub_->publish
  log,                   \* snapshots the running callback has logged
  rtpc,                  \* position of the real-time thread in realtime_loop
  wait_sub,              \* subscriptions[0] of the wait result
  msg,                   \* the message the real-time thread is handling
  trace,                 \* calls made by the current loop iteration
  execpc,                \* position of the executor thread
  exec_trace,            \* calls made by the running transition callback
  teleop_msg,            \* the teleop message the executor is handling
  ok,                    \* rclcpp::ok()
  mainpc,                \* position of the main thread in main
  process,               \* the process runs, has returned from main or was terminated
  ret,                   \* main: ret
  lock_memory,           \* proc_settings.lock_memory
  memory_locked,         \* calls of lock_process_memory so far
  priority_applied,      \* calls of configure_process_priority so far
  thrown,                \* the exception in flight or handled, if any
  sim,                   \* MotorSim: not constructed, constructed or failed
  publish_period,        \* MotorSim: publish_period_ in nanoseconds
  dt,                    \* MotorSim: dt_ in milliseconds
  position,              \* MotorSim: state_.position in milliradians
  velocity,              \* MotorSim: state_.velocity
  acceleration,          \* MotorSim: state_.acceleration
  updates                \* calls of update_motor_state so far

vars == <<lifecycle, enabled, response, state, teleop, force_command, update_teleop,
          num_missed_deadlines, queue, backlog, last_sent, published, log, rtpc, wait_sub, msg, trace, execpc, exec_trace, teleop_msg, ok,
          mainpc, process, ret, lock_memory, memory_locked, priority_applied,
          thrown,
          sim, publish_period, dt, position, velocity, acceleration, updates>>

controllerVars == <<state, teleop, force_command>>
rtVars == <<rtpc, wait_sub, msg, trace, update_teleop, published>>
lifecycleVars == <<lifecycle, enabled, response, log, exec_trace>>
transportVars == <<queue, backlog, last_sent>>
mainVars == <<mainpc, process, ret, lock_memory, memory_locked, priority_applied,
              thrown>>
motorVars == <<sim, publish_period, dt, position, velocity, acceleration, updates>>

\* ------------------------------------------------------------- controller
\* PendulumController: command = FeedbackGain . error_vector
Calculate(s, t) ==
  FeedbackMatrix[1] * (s[1] - t[1]) + FeedbackMatrix[2] * (s[2] - t[2])
    + FeedbackMatrix[3] * s[3] + FeedbackMatrix[4] * s[4]

\* PendulumController::reset baseline
ResetState == <<0, 0, 0, 0>>
ResetTeleop == <<0, 0>>

\* --------------------------------------------------------- lifecycle table
\* a table that lets activate through from Unconfigured as well
ValidActivateAnywhere(s, t) ==
  CASE t = "configure"  -> s = Unconfigured
    [] t = "cleanup"    -> s = Inactive
    [] t = "activate"   -> s \in {Unconfigured, Inactive}
    [] t = "deactivate" -> s = Active
    [] t = "shutdown"   -> s \in {Unconfigured, Inactive, Active}

\* the primary states a transition may be requested in
Valid(s, t) ==
  CASE t = "configure"  -> s = Unconfigured
    [] t = "cleanup"    -> s = Inactive
    [] t = "activate"   -> s = Inactive
    [] t = "deactivate" -> s = Active
    [] t = "shutdown"   -> s \in {Unconfigured, Inactive, Active}

TransitionState(t) ==
  CASE t = "configure"  -> Configuring
    [] t = "cleanup"    -> CleaningUp
    [] t = "activate"   -> Activating
    [] t = "deactivate" -> Deactivating
    [] t = "shutdown"   -> ShuttingDown

\* the state entered when the callback returns CallbackReturn::SUCCESS
GoalState(s) ==
  CASE s = Configuring  -> Inactive
    [] s = CleaningUp   -> Unconfigured
    [] s = Activating   -> Active
    [] s = Deactivating -> Inactive
    [] s = ShuttingDown -> Finalized

\* the node as its constructor leaves it
NodeInit ==
  /\ lifecycle = Unconfigured
  /\ enabled = FALSE
  /\ response = "none"
  /\ state = ResetState
  /\ teleop = ResetTeleop
  /\ force_command = 0
  /\ update_teleop = NoMsg
  /\ num_missed_deadlines = 0
  /\ queue = <<>>
  /\ backlog = 0
  /\ last_sent = NoMsg
  /\ published = NoMsg
  /\ log = <<>>
  /\ wait_sub = FALSE
  /\ msg = NoMsg
  /\ trace = <<>>
  /\ exec_trace = <<>>
  /\ teleop_msg = NoMsg
  /\ ok = TRUE

\* no MotorSim has been constructed
NoMotor ==
  /\ sim = "none"
  /\ publish_period = 0
  /\ dt = 0
  /\ position = D(0)
  /\ velocity = D(0)
  /\ acceleration = D(0)
  /\ updates = 0

\* main sleeps (line 63): both threads run, lock_memory is not set
Init ==
  /\ NodeInit
  /\ NoMotor
  /\ rtpc = "top"
  /\ execpc = "idle"
  /\ mainpc = "sleep"
  /\ process = "running"
  /\ ret = 0
  /\ lock_memory = FALSE
  /\ memory_locked = 0
  /\ priority_applied = 1
  /\ thrown = "none"

\* ------------------------------------------------------ real-time thread
\* a history that never drops a sample
KeepAll(q, depth) == q

\* KEEP_LAST history of the given depth: the oldest samples are dropped
KeepLast(q, depth) ==
  IF Len(q) > depth THEN SubSeq(q, Len(q) - depth + 1, Len(q)) ELSE q

\* on_sensor_message publishing before it updates
PublishBeforeUpdate == <<"set_state", "publish", "update">>

\* the calls of on_sensor_message, in order
OnSensorMessage == <<"set_state", "update", "publish">>

\* command_message_.force = get_force_command(); command_pub_->publish:
\* a LifecyclePublisher lets the message out only while activated
Publish(en, force) == [force |-> force, forwarded |-> en]

\* a loop that counts every timeout
MissedAlways(lc, n) == n + 1

\* a loop that clears the count on a timeout outside Active
MissedOrCleared(lc, n) == IF lc = Active THEN n + 1 ELSE 0

\* num_missed_deadlines_ after a wait that timed out in lifecycle state lc
MissedAfterTimeout(lc, n) == IF lc = Active THEN n + 1 ELSE n

\* a loop that never looks at rclcpp::ok()
rt_top_forever ==
  /\ rtpc = "top"
  /\ rtpc' = "wait"
  /\ trace' = <<>>
  /\ published' = NoMsg
  /\ update_teleop' = NoMsg
  /\ UNCHANGED <<wait_sub, msg, controllerVars,
                 lifecycleVars, transportVars, num_missed_deadlines,
                 execpc, teleop_msg, ok>>
  /\ UNCHANGED <<mainVars, motorVars>>

\* while (rclcpp::ok()): the locals of the previous iteration are gone
rt_top ==
  /\ rtpc = "top"
  /\ rtpc' = IF ok THEN "wait" ELSE "done"
  /\ trace' = <<>>
  /\ published' = NoMsg
  /\ update_teleop' = NoMsg
  /\ UNCHANGED <<wait_sub, msg, controllerVars,
                 lifecycleVars, transportVars, num_missed_deadlines,
                 execpc, teleop_msg, ok>>
  /\ UNCHANGED <<mainVars, motorVars>>

\* wait_set.wait(deadline_duration_) returns Ready: the subscription is marked
\* when it holds a sample; with none the wake-up may or may not mark it
wait_ready ==
  /\ rtpc = "wait"
  /\ \E marked \in BOOLEAN :
       /\ queue # <<>> => marked
       /\ wait_sub' = marked
  /\ rtpc' = "ready"
  /\ UNCHANGED <<msg, trace, update_teleop, published,
                 controllerVars, lifecycleVars, transportVars, num_missed_deadlines,
                 execpc, teleop_msg, ok>>
  /\ UNCHANGED <<mainVars, motorVars>>

\* wait_set.wait(deadline_duration_) returns Timeout: no sample arrived in time
wait_timeout ==
  /\ rtpc = "wait"
  /\ queue = <<>>
  /\ num_missed_deadlines < MaxMissed
  /\ rtpc' = "timeout"
  /\ UNCHANGED <<wait_sub, msg, trace, update_teleop, published, controllerVars, lifecycleVars, transportVars,
                 num_missed_deadlines, execpc, teleop_msg, ok>>
  /\ UNCHANGED <<mainVars, motorVars>>

\* a Ready branch that counts a wake-up without a sample as a missed deadline
rt_ready_counts_miss ==
  /\ rtpc = "ready"
  /\ wait_sub' = FALSE
  /\ IF wait_sub /\ queue # <<>>
       THEN /\ msg' = Head(queue)
            /\ queue' = Tail(queue)
            /\ trace' = <<"take">>
            /\ rtpc' = "handle"
            /\ UNCHANGED num_missed_deadlines
       ELSE /\ rtpc' = "top"
            /\ num_missed_deadlines' =
                 MissedAfterTimeout(lifecycle, num_missed_deadlines)
            /\ UNCHANGED <<msg, queue, trace>>
  /\ UNCHANGED <<update_teleop, published, backlog, last_sent,
                 controllerVars, lifecycleVars, execpc, teleop_msg, ok>>
  /\ UNCHANGED <<mainVars, motorVars>>

\* the Ready branch: subscriptions[0] and state_sub_->take
rt_ready ==
  /\ rtpc = "ready"
  /\ wait_sub' = FALSE
  /\ IF wait_sub /\ queue # <<>>
       THEN /\ msg' = Head(queue)
            /\ queue' = Tail(queue)
            /\ trace' = <<"take">>
            /\ rtpc' = "handle"
       ELSE /\ rtpc' = "top"
            /\ UNCHANGED <<msg, queue, trace>>
  /\ UNCHANGED <<update_teleop, published, backlog, last_sent,
                 controllerVars, lifecycleVars, num_missed_deadlines,
                 execpc, teleop_msg, ok>>
  /\ UNCHANGED <<mainVars, motorVars>>

\* state_sub_->handle_message: the next call of on_sensor_message
rt_handle ==
  /\ rtpc = "handle"
  /\ LET call == OnSensorMessage[Len(trace)]
         last == Len(trace) = Len(OnSensorMessage)
     IN  /\ trace' = Append(trace, call)
         /\ rtpc' = IF last THEN "top" ELSE "handle"
         /\ msg' = IF last THEN NoMsg ELSE msg
         /\ CASE call = "set_state" ->
                   /\ state' = msg
                   /\ UNCHANGED <<teleop, force_command, update_teleop, published>>
              [] call = "update" ->
                   /\ force_command' = Calculate(state, teleop)
                   /\ update_teleop' = teleop
                   /\ UNCHANGED <<state, teleop, published>>
              [] call = "publish" ->
                   /\ published' = Publish(enabled, force_command)
                   /\ UNCHANGED <<controllerVars, update_teleop>>
  /\ UNCHANGED <<wait_sub, lifecycleVars, transportVars,
                 num_missed_deadlines, execpc, teleop_msg, ok>>
  /\ UNCHANGED <<mainVars, motorVars>>

\* a Timeout branch that gives the loop up
rt_timeout_aborts ==
  /\ rtpc = "timeout"
  /\ num_missed_deadlines' = MissedAfterTimeout(lifecycle, num_missed_deadlines)
  /\ rtpc' = "done"
  /\ UNCHANGED <<wait_sub, msg, trace, update_teleop, published, controllerVars, lifecycleVars, transportVars,
                 execpc, teleop_msg, ok>>
  /\ UNCHANGED <<mainVars, motorVars>>

\* the Timeout branch
rt_timeout ==
  /\ rtpc = "timeout"
  /\ num_missed_deadlines' = MissedAfterTimeout(lifecycle, num_missed_deadlines)
  /\ rtpc' = "top"
  /\ UNCHANGED <<wait_sub, msg, trace, update_teleop, published, controllerVars, lifecycleVars, transportVars,
                 execpc, teleop_msg, ok>>
  /\ UNCHANGED <<mainVars, motorVars>>

\* -------------------------------------------------------- executor thread
\* on_deactivate that forgets command_pub_->on_deactivate()
CallbackBodyNoDeactivate(lc) ==
  CASE lc = Configuring  -> <<"reset">>
    [] lc = Activating   -> <<"on_activate">>
    [] lc = Deactivating -> <<"log_controller_state">>
    [] lc = CleaningUp   -> <<>>
    [] lc = ShuttingDown -> <<>>

\* on_configure that forgets controller_.reset()
CallbackBodyNoReset(lc) ==
  CASE lc = Configuring  -> <<>>
    [] lc = Activating   -> <<"on_activate">>
    [] lc = Deactivating -> <<"on_deactivate", "log_controller_state">>
    [] lc = CleaningUp   -> <<>>
    [] lc = ShuttingDown -> <<>>

\* the calls each transition callback makes, in order
CallbackBody(lc) ==
  CASE lc = Configuring  -> <<"reset">>
    [] lc = Activating   -> <<"on_activate">>
    [] lc = Deactivating -> <<"on_deactivate", "log_controller_state">>
    [] lc = CleaningUp   -> <<>>
    [] lc = ShuttingDown -> <<>>

Calls(body) == {body[i] : i \in 1..Len(body)}
Count(body, call) == Cardinality({i \in 1..Len(body) : body[i] = call})

\* the plant state log_controller_state may read: set_state on the real-time
\* thread is not synchronised with it, so each field is the old or the new one
LoggedStates ==
  IF rtpc = "handle" /\ OnSensorMessage[Len(trace)] = "set_state"
    THEN {s \in [1..4 -> {state[i] : i \in 1..4} \cup {msg[i] : i \in 1..4}] :
            \A i \in 1..4 : s[i] \in {state[i], msg[i]}}
    ELSE {state}

\* log_controller_state
Snapshot(s) ==
  [state |-> s, teleop |-> teleop, force |-> force_command,
   missed |-> num_missed_deadlines]

\* a change_state request served by the executor
change_state(t) ==
  /\ execpc = "idle"
  /\ ok
  /\ IF Valid(lifecycle, t)
       THEN /\ lifecycle' = TransitionState(t)
            /\ execpc' = "callback"
            /\ UNCHANGED response
       ELSE /\ response' = "failure"
            /\ UNCHANGED <<lifecycle, execpc>>
  /\ UNCHANGED <<enabled, log, exec_trace, controllerVars, rtVars, transportVars,
                 num_missed_deadlines, teleop_msg, ok>>
  /\ UNCHANGED <<mainVars, motorVars>>

\* on_configure, on_activate, on_deactivate, on_cleanup, on_shutdown
on_transition ==
  /\ execpc = "callback"
  /\ LET body == CallbackBody(lifecycle)
     IN  /\ exec_trace' = body
         /\ enabled' = IF "on_deactivate" \in Calls(body) THEN FALSE
                       ELSE IF "on_activate" \in Calls(body) THEN TRUE
                       ELSE enabled
         /\ IF "reset" \in Calls(body)
              THEN /\ state' = ResetState
                   /\ teleop' = ResetTeleop
                   /\ force_command' = 0
              ELSE UNCHANGED <<state, teleop, force_command>>
         /\ \E s \in LoggedStates :
              log' = [i \in 1..Count(body, "log_controller_state") |-> Snapshot(s)]
  /\ execpc' = "finish"
  /\ UNCHANGED <<lifecycle, response, rtVars, transportVars,
                 num_missed_deadlines, teleop_msg, ok>>
  /\ UNCHANGED <<mainVars, motorVars>>

\* the callback returned SUCCESS: the node enters the goal state
finish_transition ==
  /\ execpc = "finish"
  /\ response' = "success"
  /\ lifecycle' = GoalState(lifecycle)
  /\ execpc' = "idle"
  /\ log' = <<>>
  /\ exec_trace' = <<>>
  /\ UNCHANGED <<enabled, controllerVars, rtVars, transportVars,
                 num_missed_deadlines, teleop_msg, ok>>
  /\ UNCHANGED <<mainVars, motorVars>>

\* on_pendulum_teleop: controller_.set_teleop writes the cart position ...
set_teleop_position(m) ==
  /\ execpc = "idle"
  /\ ok
  /\ teleop_msg' = m
  /\ teleop' = [teleop EXCEPT ![1] = m[1]]
  /\ execpc' = "set_teleop"
  /\ UNCHANGED <<state, force_command, lifecycleVars, rtVars,
                 transportVars, num_missed_deadlines, ok>>
  /\ UNCHANGED <<mainVars, motorVars>>

\* ... and then the cart velocity
set_teleop_velocity ==
  /\ execpc = "set_teleop"
  /\ teleop' = [teleop EXCEPT ![2] = teleop_msg[2]]
  /\ teleop_msg' = NoMsg
  /\ execpc' = "idle"
  /\ UNCHANGED <<state, force_command, lifecycleVars, rtVars,
                 transportVars, num_missed_deadlines, ok>>
  /\ UNCHANGED <<mainVars, motorVars>>

\* the callback group of each subscription and of the publisher
GroupOf(e) ==
  CASE e = "teleop_sub_"  -> "default"
    [] e = "state_sub_"   -> "realtime_cb_group_"
    [] e = "command_pub_" -> "realtime_cb_group_"

\* a node whose realtime_cb_group_ is created with the default second argument
AutomaticallyAddAll(g) == TRUE

\* automatically_add_to_executor_with_node of each callback group
AutomaticallyAdd(g) ==
  CASE g = "default"            -> TRUE
    [] g = "realtime_cb_group_" -> FALSE

\* exec.add_node: the subscriptions the executor services
ExecutorSubscriptions ==
  {e \in {"teleop_sub_", "state_sub_"} : AutomaticallyAdd(GroupOf(e))}

\* the executor takes a sample from state_sub_ and runs on_sensor_message
exec_on_sensor_message ==
  /\ execpc = "idle"
  /\ ok
  /\ queue # <<>>
  /\ queue' = Tail(queue)
  /\ state' = Head(queue)
  /\ force_command' = Calculate(Head(queue), teleop)
  /\ published' = Publish(enabled, Calculate(Head(queue), teleop))
  /\ exec_trace' = <<"on_sensor_message">>
  /\ UNCHANGED <<teleop, lifecycle, enabled, response, log, backlog, last_sent,
                 rtpc, wait_sub, msg, trace, update_teleop,
                 num_missed_deadlines, execpc, teleop_msg, ok>>
  /\ UNCHANGED <<mainVars, motorVars>>

\* the executor runs the callback of a subscription it services
execute_subscription(e) ==
  IF e = "teleop_sub_"
    THEN \E m \in TeleopMsgs : set_teleop_position(m)
    ELSE exec_on_sensor_message

\* ------------------------------------------------------ transport and main
\* the transport delivers a sample to state_sub_
deliver(s) ==
  /\ ok
  /\ queue # <<>> => backlog < MaxBacklog
  /\ backlog' = IF queue = <<>> THEN 1 ELSE backlog + 1
  /\ last_sent' = s
  /\ queue' = KeepLast(Append(queue, s), StateQoSDepth)
  /\ UNCHANGED <<controllerVars, lifecycleVars, rtVars,
                 num_missed_deadlines, execpc, teleop_msg, ok>>
  /\ UNCHANGED <<mainVars, motorVars>>

\* rclcpp::shutdown() in main
shutdown ==
  /\ mainpc = "sleep"
  /\ ok
  /\ ok' = FALSE
  /\ mainpc' = "join_exec"
  /\ UNCHANGED <<controllerVars, lifecycleVars, rtVars, transportVars,
                 num_missed_deadlines, execpc, teleop_msg>>
  /\ UNCHANGED <<process, ret, lock_memory, memory_locked, priority_applied, thrown,
                 motorVars>>

Next ==
  \/ rt_top
  \/ wait_ready
  \/ wait_timeout
  \/ rt_ready
  \/ rt_handle
  \/ rt_timeout
  \/ \E t \in Transitions : change_state(t)
  \/ on_transition
  \/ finish_transition
  \/ \E e \in ExecutorSubscriptions : execute_subscription(e)
  \/ set_teleop_velocity
  \/ \E s \in Samples : deliver(s)
  \/ shutdown

Spec == Init /\ [][Next]_vars

\* ------------------------------------------------------------------ main
\* everything of the node but the positions of the two threads
nodeData == <<controllerVars, lifecycleVars, transportVars, num_missed_deadlines,
              wait_sub, msg, trace, update_teleop, published, teleop_msg, ok>>

Exceptions == {"std::exception", "other"}

\* the statements of the try block that are modelled as able to throw
ThrowPoints == {"init", "create", "lock", "node_init"}

\* std::thread objects of the try block that are joinable at a position of main
Joinable(pc) ==
  (IF pc \in {"start_rt", "lock", "node_init", "sleep", "join_exec"}
   THEN {"thread"} ELSE {})
  \cup
  (IF pc \in {"lock", "node_init", "sleep", "join_exec", "join_rt"}
   THEN {"rt_thread"} ELSE {})

\* the value the catch clauses give ret
CatchValue(e) == IF e = "std::exception" THEN 2 ELSE -1

\* the program at the start of main, proc_settings.lock_memory set or not
MainInit ==
  /\ NodeInit
  /\ NoMotor
  /\ rtpc = "not_started"
  /\ execpc = "not_started"
  /\ mainpc = "init"
  /\ process = "running"
  /\ ret = 0
  /\ lock_memory \in BOOLEAN
  /\ memory_locked = 0
  /\ priority_applied = 0
  /\ thrown = "none"

\* rclcpp::init and the executor
main_init ==
  /\ mainpc = "init"
  /\ mainpc' = "create"
  /\ UNCHANGED <<nodeData, rtpc, execpc, motorVars>>
  /\ UNCHANGED <<process, ret, lock_memory, memory_locked, priority_applied, thrown>>

\* the node is constructed and added to the executor
main_create ==
  /\ mainpc = "create"
  /\ mainpc' = "start_exec"
  /\ UNCHANGED <<nodeData, rtpc, execpc, motorVars>>
  /\ UNCHANGED <<process, ret, lock_memory, memory_locked, priority_applied, thrown>>

\* thread: exec.spin()
main_start_exec ==
  /\ mainpc = "start_exec"
  /\ mainpc' = "start_rt"
  /\ execpc' = "idle"
  /\ UNCHANGED <<nodeData, rtpc, motorVars>>
  /\ UNCHANGED <<process, ret, lock_memory, memory_locked, priority_applied, thrown>>

\* rt_thread is started
main_start_rt ==
  /\ mainpc = "start_rt"
  /\ mainpc' = "lock"
  /\ rtpc' = "configure"
  /\ UNCHANGED <<nodeData, execpc, motorVars>>
  /\ UNCHANGED <<process, ret, lock_memory, memory_locked, priority_applied, thrown>>

\* rt_thread: configure_process_priority, then realtime_loop is entered
rt_configure ==
  /\ rtpc = "configure"
  /\ priority_applied' = priority_applied + 1
  /\ rtpc' = "top"
  /\ UNCHANGED <<nodeData, execpc, motorVars>>
  /\ UNCHANGED <<mainpc, process, ret, lock_memory, memory_locked, thrown>>

\* main: if (proc_settings.lock_memory) lock_process_memory(...)
main_lock_memory ==
  /\ mainpc = "lock"
  /\ memory_locked' = IF lock_memory THEN memory_locked + 1 ELSE memory_locked
  /\ mainpc' = "node_init"
  /\ UNCHANGED <<nodeData, rtpc, execpc, motorVars>>
  /\ UNCHANGED <<process, ret, lock_memory, priority_applied, thrown>>

\* controller_node_ptr->init()
main_node_init ==
  /\ mainpc = "node_init"
  /\ mainpc' = "sleep"
  /\ UNCHANGED <<nodeData, rtpc, execpc, motorVars>>
  /\ UNCHANGED <<process, ret, lock_memory, memory_locked, priority_applied, thrown>>

\* exec.spin() returns once rclcpp::ok() is false
exec_exit ==
  /\ execpc = "idle"
  /\ ~ok
  /\ execpc' = "done"
  /\ UNCHANGED <<nodeData, rtpc, mainVars, motorVars>>

\* thread.join()
main_join_exec ==
  /\ mainpc = "join_exec"
  /\ execpc = "done"
  /\ mainpc' = "join_rt"
  /\ UNCHANGED <<nodeData, rtpc, execpc, motorVars>>
  /\ UNCHANGED <<process, ret, lock_memory, memory_locked, priority_applied, thrown>>

\* rt_thread.join()
main_join_rt ==
  /\ mainpc = "join_rt"
  /\ rtpc = "done"
  /\ mainpc' = "return"
  /\ UNCHANGED <<nodeData, rtpc, execpc, motorVars>>
  /\ UNCHANGED <<process, ret, lock_memory, memory_locked, priority_applied, thrown>>

\* return ret
main_return ==
  /\ mainpc = "return"
  /\ mainpc' = "exited"
  /\ process' = "exited"
  /\ UNCHANGED <<nodeData, rtpc, execpc, motorVars>>
  /\ UNCHANGED <<ret, lock_memory, memory_locked, priority_applied, thrown>>

\* a statement of the try block throws e: the locals of the block are
\* destroyed, and the destructor of a joinable std::thread calls
\* std::terminate; otherwise a catch clause is entered
main_throw(e) ==
  /\ mainpc \in ThrowPoints
  /\ mainpc = "lock" => lock_memory
  /\ thrown = "none"
  /\ thrown' = e
  /\ mainpc' = IF Joinable(mainpc) = {} THEN "catch" ELSE "terminate"
  /\ UNCHANGED <<nodeData, rtpc, execpc, motorVars>>
  /\ UNCHANGED <<process, ret, lock_memory, memory_locked, priority_applied>>

\* catch (const std::exception &) / catch (...)
main_catch ==
  /\ mainpc = "catch"
  /\ ret' = CatchValue(thrown)
  /\ mainpc' = "return"
  /\ UNCHANGED <<nodeData, rtpc, execpc, motorVars>>
  /\ UNCHANGED <<process, lock_memory, memory_locked, priority_applied, thrown>>

\* take or on_sensor_message throws e
rt_throw(e) ==
  /\ rtpc \in {"ready", "handle"}
  /\ thrown = "none"
  /\ thrown' = e
  /\ rtpc' = "exception"
  /\ UNCHANGED <<nodeData, execpc, motorVars>>
  /\ UNCHANGED <<mainpc, process, ret, lock_memory, memory_locked, priority_applied>>

\* std::terminate: a joinable std::thread was destroyed, or an exception left
\* the function of rt_thread, which has no handler around realtime_loop; every
\* thread of the process ends
terminate ==
  /\ mainpc = "terminate" \/ rtpc = "exception"
  /\ process' = "terminated"
  /\ mainpc' = "aborted"
  /\ rtpc' = "aborted"
  /\ execpc' = "aborted"
  /\ UNCHANGED <<nodeData, motorVars>>
  /\ UNCHANGED <<ret, lock_memory, memory_locked, priority_applied, thrown>>

\* the steps of the real-time thread
RealtimeThread ==
  rt_configure \/ rt_top \/ wait_ready \/ wait_timeout \/ rt_ready \/ rt_handle
  \/ rt_timeout

\* the steps of the main thread after the sleep
MainJoins == main_join_exec \/ main_join_rt \/ main_return

\* the whole program, no call throwing; the teleoperation topic is silent
MainNext ==
  \/ main_init
  \/ main_create
  \/ main_start_exec
  \/ main_start_rt
  \/ rt_configure
  \/ main_lock_memory
  \/ main_node_init
  \/ rt_top
  \/ wait_ready
  \/ wait_timeout
  \/ rt_ready
  \/ rt_handle
  \/ rt_timeout
  \/ \E t \in Transitions : change_state(t)
  \/ on_transition
  \/ finish_transition
  \/ \E s \in Samples : deliver(s)
  \/ shutdown
  \/ exec_exit
  \/ main_join_exec
  \/ main_join_rt
  \/ main_return

MainSpec == MainInit /\ [][MainNext]_vars

\* the scheduler runs every thread that can take a step; the bounded wait of
\* realtime_loop returns
\* the whole program with calls that throw
FailNext ==
  \/ MainNext
  \/ \E e \in Exceptions : main_throw(e)
  \/ main_catch
  \/ \E e \in Exceptions : rt_throw(e)
  \/ terminate

FailSpec == MainInit /\ [][FailNext]_vars

FairMainSpec ==
  /\ MainSpec
  /\ WF_vars(RealtimeThread)
  /\ WF_vars(exec_exit \/ on_transition \/ finish_transition)
  /\ WF_vars(MainJoins)

\* -------------------------------------------------------------- MotorSim
\* only a MotorSim is exercised: the node is constructed, no thread runs
MotorInit ==
  /\ NodeInit
  /\ NoMotor
  /\ rtpc = "not_started"
  /\ execpc = "not_started"
  /\ mainpc = "init"
  /\ process = "running"
  /\ ret = 0
  /\ lock_memory = FALSE
  /\ memory_locked = 0
  /\ priority_applied = 0
  /\ thrown = "none"

\* MotorSim::MotorSim(period): throws when dt_ is 0
MotorSim(period) ==
  /\ sim = "none"
  /\ publish_period' = period
  /\ dt' = DtOf(period)
  /\ sim' = IF InvalidDt(DtOf(period)) THEN "failed" ELSE "constructed"
  /\ UNCHANGED <<position, velocity, acceleration, updates>>
  /\ UNCHANGED <<nodeData, rtpc, execpc, mainVars>>

\* MotorSim::update_motor_command(msg) with msg.position = c
update_motor_command(c) ==
  /\ sim = "constructed"
  /\ position' = Clamp(c)
  /\ UNCHANGED <<sim, publish_period, dt, velocity, acceleration, updates>>
  /\ UNCHANGED <<nodeData, rtpc, execpc, mainVars>>

\* MotorSim::update_motor_state
update_motor_state ==
  /\ sim = "constructed"
  /\ updates < MaxUpdates
  /\ updates' = updates + 1
  /\ LET acc == Acceleration(position)
         e   == Euler(position, velocity, acc, dt)
     IN  /\ acceleration' = acc
         /\ velocity' = e.velocity
         /\ position' = Clamp(e.position)
  /\ UNCHANGED <<sim, publish_period, dt>>
  /\ UNCHANGED <<nodeData, rtpc, execpc, mainVars>>

MotorNext ==
  \/ \E period \in Periods : MotorSim(period)
  \/ \E c \in Commands : update_motor_command(c)
  \/ update_motor_state

MotorSpec == MotorInit /\ [][MotorNext]_vars

\* ------------------------------------------------------------------ steps
\* the real-time thread leaves the Timeout branch
TimeoutStep == rtpc = "timeout" /\ rtpc' = "top"
\* command_pub_->publish is called
PublishStep == published = NoMsg /\ published' # NoMsg
\* a command goes out on the output channel
ForwardStep == PublishStep /\ published'.forwarded
\* state_sub_->take returns a sample
TakeStep == trace = <<>> /\ trace' = <<"take">>
\* a transition callback runs
CallbackStep == execpc = "callback" /\ execpc' = "finish"
\* a change_state request is answered with success = false
RejectStep == response # "failure" /\ response' = "failure"

\* ----------------------------------------------------------------- claims
\* C1: a wait that times out while the node is Active adds exactly 1 to
\* num_missed_deadlines_; one that times out in any other state, the
\* transition states included, adds 0.  The state is the one the Timeout
\* branch reads.
C1_MissedPerTimeout ==
  [][TimeoutStep =>
       num_missed_deadlines' =
         num_missed_deadlines + (IF lifecycle = Active THEN 1 ELSE 0)]_vars

C1_Witness ==
  /\ rtpc = "top"
  /\ lifecycle = Active
  /\ num_missed_deadlines = 1
  /\ trace = <<>>

\* C2: no command goes out on the output channel while the node is
\* Unconfigured, Inactive or Finalized.
C2_NoOutputUnlessActive ==
  [][ForwardStep => lifecycle \notin {Unconfigured, Inactive, Finalized}]_vars

\* C3: num_missed_deadlines_ never decreases.
C3_MissedMonotonic ==
  [][num_missed_deadlines' >= num_missed_deadlines]_vars

C3_Witness ==
  /\ num_missed_deadlines = 1
  /\ lifecycle = Configuring
  /\ execpc = "finish"

\* C4: update() never computes from the position of one set_teleop call and
\* the velocity of another.
C4_TeleopSnapshot ==
  update_teleop # NoMsg =>
    ~ \E a, b \in TeleopMsgs : a # b /\ update_teleop = <<a[1], b[2]>>

\* C5: a taken sample is handled by set_state with that sample, update and one
\* publish carrying get_force_command(), in that order and in every lifecycle
\* state; an iteration without a sample publishes nothing; what was published
\* is not changed afterwards.
C5_OneCommandPerSample ==
  /\ [](rtpc = "top" =>
          \/ trace = <<>> /\ published = NoMsg
          \/ trace = <<"take", "set_state", "update", "publish">> /\ published # NoMsg)
  /\ [][/\ trace' = <<"take", "set_state">> /\ trace = <<"take">> => state' = msg
        /\ PublishStep =>
             /\ trace = <<"take", "set_state", "update">>
             /\ published'.force = force_command
        /\ published # NoMsg /\ published' # NoMsg => published' = published]_vars

C5_Witness ==
  /\ rtpc = "top"
  /\ lifecycle = Unconfigured
  /\ published # NoMsg
  /\ published.force = Calculate(state, ResetTeleop)
  /\ state \in Samples

\* C6: the lifecycle state changes only along the edges of the managed-node
\* state machine (Inactive from Unconfigured only through configure, Active
\* only from Inactive through activate, back to Inactive through deactivate),
\* and a rejected request changes neither the lifecycle state, nor the
\* publisher's enabled flag, nor the controller.
LifecycleEdges ==
  {<<Unconfigured, Configuring>>, <<Configuring, Inactive>>,
   <<Inactive, Activating>>, <<Activating, Active>>,
   <<Active, Deactivating>>, <<Deactivating, Inactive>>,
   <<Inactive, CleaningUp>>, <<CleaningUp, Unconfigured>>,
   <<Unconfigured, ShuttingDown>>, <<Inactive, ShuttingDown>>,
   <<Active, ShuttingDown>>, <<ShuttingDown, Finalized>>}

C6_OrderedTransitions ==
  [][/\ lifecycle' # lifecycle => <<lifecycle, lifecycle'>> \in LifecycleEdges
     /\ RejectStep => UNCHANGED <<lifecycle, enabled, state, teleop, force_command>>]_vars

C6_Witness ==
  /\ lifecycle = Active
  /\ response = "failure"
  /\ enabled
  /\ num_missed_deadlines = 1

\* C7: once the node is Finalized the lifecycle state stays Finalized, no
\* command goes out and num_missed_deadlines_ does not change.
C7_FinalizedTerminal ==
  [][lifecycle = Finalized =>
       /\ lifecycle' = Finalized
       /\ ~ ForwardStep
       /\ num_missed_deadlines' = num_missed_deadlines]_vars

\* C8: on_deactivate disables the publisher and logs exactly one snapshot,
\* made of the controller state, the teleop setpoint, the last force command
\* and the missed-deadline count; no other callback logs a snapshot.
C8_DeactivateSnapshot ==
  [][CallbackStep =>
       IF lifecycle = Deactivating
         THEN /\ ~ enabled'
              /\ Len(log') = 1
              /\ DOMAIN log'[1] = {"state", "teleop", "force", "missed"}
              /\ \A i \in 1..4 :
                   log'[1].state[i] \in
                     {state[i]} \cup (IF msg = NoMsg THEN {} ELSE {msg[i]})
              /\ log'[1].teleop = teleop
              /\ log'[1].force = force_command
              /\ log'[1].missed = num_missed_deadlines
         ELSE log' = <<>>]_vars

C8_Witness ==
  /\ execpc = "finish"
  /\ lifecycle = Deactivating
  /\ ~ enabled
  /\ Len(log) = 1
  /\ log[1].teleop \in TeleopMsgs
  /\ log[1].state \in Samples
  /\ log[1].missed = 1

\* C9: configure succeeds from Unconfigured, calls reset() once and leaves the
\* node Inactive with the teleop setpoint at (0, 0); it neither enables the
\* publisher nor changes num_missed_deadlines_.
C9_ConfigureResets ==
  [][/\ lifecycle = Configuring =>
          /\ lifecycle' \in {Configuring, Inactive}
          /\ ~ enabled /\ ~ enabled'
          /\ num_missed_deadlines' = num_missed_deadlines
     /\ lifecycle = Configuring /\ CallbackStep =>
          /\ state' = ResetState
          /\ teleop' = ResetTeleop
     /\ lifecycle = Configuring /\ lifecycle' = Inactive =>
          /\ exec_trace = <<"reset">>
          /\ teleop' = ResetTeleop
          /\ response' = "success"]_vars

C9_Witness ==
  /\ lifecycle = Configuring
  /\ execpc = "finish"
  /\ exec_trace = <<"reset">>
  /\ teleop = ResetTeleop
  /\ state = ResetState
  /\ num_missed_deadlines = 2
  /\ ~ enabled

\* C10: state_sub_ holds at most one sample, the one delivered last, and a
\* take hands that sample to the loop and leaves none behind.
C10_SingleSlot ==
  /\ [](/\ Len(queue) <= 1
        /\ queue # <<>> => queue[1] = last_sent)
  /\ [][TakeStep => msg' = last_sent /\ queue' = <<>>]_vars

C10_Witness ==
  /\ rtpc = "handle"
  /\ trace = <<"take">>
  /\ backlog = 3
  /\ msg = last_sent
  /\ queue = <<>>

\* C11: once rclcpp::shutdown() has cleared rclcpp::ok(), realtime_loop starts
\* no wait beyond the one it may be in, sees the flag at the top of its next
\* cycle and returns, and rt_thread.join() in main completes.
C11_LoopTerminates ==
  /\ [][~ ok /\ rtpc = "top" => rtpc' \in {"top", "done"}]_vars
  /\ [][rtpc = "done" => rtpc' = "done"]_vars
  /\ (~ ok) ~> (rtpc = "done" /\ mainpc \in {"return", "exited"})

C11_Witness ==
  /\ ~ ok
  /\ rtpc = "done"
  /\ mainpc = "exited"
  /\ num_missed_deadlines = MaxMissed

\* C12: a missed deadline never ends realtime_loop. The Timeout branch records
\* the miss at most once, processes nothing and falls to the top of the loop,
\* from where the loop enters the next bounded wait as long as rclcpp::ok()
\* holds; the loop is left only from its top, with rclcpp::ok() false.
C12_MissNeverAborts ==
  /\ [][rtpc = "timeout" /\ rtpc' # "timeout" =>
          /\ rtpc' = "top"
          /\ num_missed_deadlines' \in {num_missed_deadlines, num_missed_deadlines + 1}
          /\ trace' = <<>> /\ published' = NoMsg
          /\ UNCHANGED <<queue, controllerVars>>]_vars
  /\ [][rtpc = "top" /\ ok /\ rtpc' # "top" => rtpc' = "wait"]_vars
  /\ [][rtpc # "done" /\ rtpc' = "done" => rtpc = "top" /\ ~ ok]_vars

C12_Witness ==
  /\ rtpc = "wait"
  /\ ok
  /\ lifecycle = Active
  /\ num_missed_deadlines = MaxMissed
  /\ backlog = 0

\* C13: the real-time configuration is applied exactly once and is complete
\* before realtime_loop runs its first iteration: once the real-time thread is
\* inside the loop, configure_process_priority has been called once and, when
\* lock_memory is set, lock_process_memory has been called once.
C13_ConfiguredBeforeLoop ==
  /\ priority_applied <= 1
  /\ memory_locked <= 1
  /\ rtpc \notin {"not_started", "configure"} =>
       /\ priority_applied = 1
       /\ lock_memory => memory_locked = 1

\* C14: an exception raised while realtime_loop processes an iteration (take,
\* controller update, publish) does not end the loop and does not terminate the
\* process: the loop is next at its top, the process running.
C14_FailureSurfaced ==
  [][rtpc = "exception" /\ rtpc' # "exception" =>
        rtpc' = "top" /\ process' = "running"]_vars

\* C15: the command that goes out for a sample is Calculate of that sample and
\* of the teleop setpoint read by the update, whatever happened before.
C15_CommandOfSample ==
  [][ForwardStep => published'.force = Calculate(msg, update_teleop)]_vars

\* C16: samples are processed on the real-time thread only. state_sub_ and
\* command_pub_ are in a callback group the executor does not service; the
\* executor never runs on_sensor_message; a sample leaves state_sub_ only by
\* the take of realtime_loop, which happens when no sample is being processed;
\* num_missed_deadlines_ changes only in the Timeout branch of realtime_loop.
C16_RealtimeThreadOnly ==
  /\ [](/\ "state_sub_" \notin ExecutorSubscriptions
        /\ ~ AutomaticallyAdd(GroupOf("command_pub_"))
        /\ "on_sensor_message" \notin Calls(exec_trace))
  /\ [][Len(queue') < Len(queue) => rtpc = "ready" /\ rtpc' = "handle" /\ msg = NoMsg]_vars
  /\ [][state' # state /\ state' # ResetState =>
          rtpc = "handle" /\ trace = <<"take">> /\ state' = msg]_vars
  /\ [][num_missed_deadlines' # num_missed_deadlines => TimeoutStep]_vars

C16_Witness ==
  /\ rtpc = "handle"
  /\ trace = <<"take", "set_state">>
  /\ state = msg
  /\ execpc = "set_teleop"
  /\ num_missed_deadlines = 1

\* C17: the position of a MotorSim is a number in [0, PI] after every
\* update_motor_command and update_motor_state, whatever position is commanded;
\* update_motor_state adds acceleration * dt_ to the velocity first and then
\* the new velocity * dt_ to the position, and clamps last.
C17_PositionInRange ==
  /\ [](sim = "constructed" =>
          ~ position.nan /\ 0 <= position.v /\ position.v <= PI)
  /\ [][updates' = updates + 1 =>
          /\ velocity' = Add(velocity, Mul(acceleration', D(dt)))
          /\ position' = Clamp(Add(position, Mul(velocity', D(dt))))]_vars

\* C18: an iteration whose wait returns Ready without a sample (the
\* subscription is not marked, or take returns false) changes nothing: the
\* controller state, the force command and num_missed_deadlines_ stay, no
\* command is published and no sample is consumed, in every lifecycle state.
C18_ReadyWithoutSample ==
  [][rtpc = "ready" /\ rtpc' # "ready" /\ (~ wait_sub \/ queue = <<>>) =>
        /\ rtpc' = "top"
        /\ trace' = <<>> /\ published' = NoMsg
        /\ UNCHANGED <<controllerVars, num_missed_deadlines, enabled, lifecycle,
                       transportVars>>]_vars

C18_Witness ==
  /\ rtpc = "ready"
  /\ wait_sub
  /\ queue = <<>>
  /\ lifecycle = Active
  /\ enabled
  /\ force_command # 0
  /\ num_missed_deadlines = 1

\* C19: main returns 0 only after rclcpp::shutdown(), thread.join() and
\* rt_thread.join(), in that order; an exception thrown in the try block is
\* caught, and main then returns 2 for a std::exception and -1 for any other.
C19_MainReturn ==
  /\ [](process = "exited" /\ ret = 0 =>
          ~ ok /\ execpc = "done" /\ rtpc = "done")
  /\ [][mainpc' # mainpc =>
          /\ mainpc' = "join_exec" => mainpc = "sleep" /\ ~ ok'
          /\ mainpc' = "join_rt" => mainpc = "join_exec" /\ execpc = "done"
          /\ mainpc' = "return" /\ ret' = 0 => mainpc = "join_rt" /\ rtpc = "done"]_vars
  /\ [][thrown = "none" /\ thrown' # "none" /\ mainpc' # mainpc =>
          mainpc' = "catch"]_vars
  /\ [](process = "exited" /\ thrown # "none" => ret = CatchValue(thrown))

\* C20: MotorSim(period) throws for a period of 0 and leaves no simulator to
\* update; for every other period it succeeds with dt_ = period / 10^9
\* seconds; dt_ is not written again.
C20_ConstructorChecksDt ==
  /\ [][sim = "none" /\ sim' # "none" =>
          /\ sim' = IF publish_period' = 0 THEN "failed" ELSE "constructed"
          /\ sim' = "constructed" => dt' * NanosPerMilli = publish_period']_vars
  /\ [][sim # "none" => UNCHANGED <<sim, dt, publish_period>>]_vars
  /\ [](sim = "failed" => updates = 0 /\ position = D(0))

C20_Witness ==
  /\ sim = "constructed"
  /\ publish_period = 1000000
  /\ dt = 1
  /\ updates = MaxUpdates
  /\ position # D(0)

====
